---- MODULE Spec2Model ----
(***************************************************************************)
(* Model of the essay-scoring Cloud Function of src/functions/main.py:     *)
(* the process-wide model handle (model, _model_loaded), its acquisition   *)
(* with fallback, calculate_similarity, calculate_final_score and the      *)
(* score_exam request handler.                                             *)
(*                                                                         *)
(* Numbers.  A similarity is an integer count of 1/100000 (85000 is 0.85). *)
(* A percentage is an integer count of 1/10000000, so that every product   *)
(* of the calibration curve is exact: (s - 0.85) * 0.67 is                 *)
(* (S - 85000) * 67 / 10^7.  Python's round() is round-half-to-even.       *)
(***************************************************************************)
EXTENDS Integers, Sequences, FiniteSets, TLC

---------------------------------------------------------------------------
(* Pure functions                                                          *)

\* One whole (1.0) as a percentage count.
PctOne == 100000 * 100

Min(a, b) == IF a <= b THEN a ELSE b

\* int(n / d) for n >= 0 in place of round: the fraction is dropped.
RoundDown(n, d) == n \div d

\* Python round(n / d) for d > 0: nearest integer, ties to the even one.
RoundHalfEven(n, d) ==
  LET q == n \div d
      r == n % d
  IN  IF 2 * r < d THEN q
      ELSE IF 2 * r > d THEN q + 1
      ELSE IF q % 2 = 0 THEN q ELSE q + 1

\* round(similarity_score, 4): to the nearest multiple of 10 (1/10000).
Round4(similarity) == RoundHalfEven(similarity, 10) * 10

\* percentage with the top branch starting at 0.80 instead of 0.90.
percentage_low_top(similarity) ==
  IF similarity >= 85000 THEN 8000000 + (similarity - 85000) * 67
  ELSE IF similarity >= 70000 THEN 7000000 + (similarity - 70000) * 133
  ELSE IF similarity >= 55000 THEN 5000000 + (similarity - 55000) * 133
  ELSE IF similarity >= 40000 THEN 3000000 + (similarity - 40000) * 133
  ELSE similarity * 75

\* The five branches of the curve (lines 197, 200, 203, 206, 209).
perfect(similarity) == 9000000 + (similarity - 85000) * 67
good(similarity) == 7000000 + (similarity - 70000) * 133
partial(similarity) == 5000000 + (similarity - 55000) * 133
weak(similarity) == 3000000 + (similarity - 40000) * 133
poor(similarity) == similarity * 75

\* The branch of the curve selected by the similarity range (lines 195-209).
percentage(similarity) ==
  IF similarity >= 85000 THEN perfect(similarity)
  ELSE IF similarity >= 70000 THEN good(similarity)
  ELSE IF similarity >= 55000 THEN partial(similarity)
  ELSE IF similarity >= 40000 THEN weak(similarity)
  ELSE poor(similarity)

Abs(n) == IF n < 0 THEN -n ELSE n

RECURSIVE GCD(_, _)
GCD(a, b) == IF b = 0 THEN a ELSE GCD(b, a % b)

\* round(min(percentage, 1.0) * max_score).  The fraction percentage / 1.0
\* is reduced before it is scaled, which keeps the product a small number
\* and changes nothing of its value.
scale(pct, max_score) ==
  LET p == Min(pct, PctOne)
      g == GCD(PctOne, Abs(p))
  IN  RoundHalfEven((p \div g) * max_score, PctOne \div g)

\* return round(min(percentage, 1.0) * max_score)
calculate_final_score(similarity, max_score) ==
  scale(percentage(similarity), max_score)

---------------------------------------------------------------------------
(* Values                                                                  *)

\* Texts are sequences of characters; SP is a whitespace character.
SP == " "
X == "x"

RECURSIVE lstrip(_)
lstrip(s) == IF s # <<>> /\ Head(s) = SP THEN lstrip(Tail(s)) ELSE s

RECURSIVE rstrip(_)
rstrip(s) ==
  IF s # <<>> /\ s[Len(s)] = SP THEN rstrip(SubSeq(s, 1, Len(s) - 1)) ELSE s

\* strip left out: the text as it came.
strip_none(s) == s

\* str.strip(): surrounding whitespace removed.
strip(s) == rstrip(lstrip(s))

\* A key of a request dict: present with a value, or absent.
Present(v) == [present |-> TRUE, v |-> v]
Absent(dummy) == [present |-> FALSE, v |-> dummy]

\* dict.get(key, default)
Get(field, default) == IF field.present THEN field.v ELSE default

\* The default of answer.get("max_score", 100).
DefaultMaxScore == 100

EmptyDict == [f \in {} |-> 0]

CorsHeaders ==
  {"Content-Type", "Access-Control-Allow-Origin",
   "Access-Control-Allow-Methods", "Access-Control-Allow-Headers"}

\* create_response with the Content-Type header only.
create_response_no_cors(data, status) ==
  [body |-> data, status |-> status, headers |-> {"Content-Type"}]

\* https_fn.Response(json.dumps(data), status=status, headers={...})
create_response(data, status) ==
  [body |-> data, status |-> status, headers |-> CorsHeaders]

NoResponse == [body |-> EmptyDict, status |-> 0, headers |-> {}]

---------------------------------------------------------------------------
(* Bounds and input sets                                                   *)

\* Requests served over the life of one process.
MaxRequests == 2
\* Items of an answers list.
MaxBatch == 2
\* Entries of a storage listing.
MaxBlobs == 2
\* Largest max_score of the calibration inputs, 50 and 100 apart.
MaxScore == 20
\* A max_score of thousands, tried on the breakpoints of the curve.
LargeMaxScore == 4000

\* The worker threads of one process instance.
Threads == {1, 2}

\* The items of an answers list: a dict with each key present or absent, or
\* a value that is no dict.
NotADict ==
  [dict |-> FALSE, question_id |-> Absent(""), key_answer |-> Absent(<<>>),
   student_answer |-> Absent(<<>>), max_score |-> Absent(0)]

Dicts(qids, keys, students, scores) ==
  [dict : {TRUE}, question_id : qids, key_answer : keys,
   student_answer : students, max_score : scores]

\* Items whose key and student answers are both non-empty once stripped.
FullAnswers ==
  Dicts({Present("q1"), Absent("")}, {Present(<<SP, X>>)},
        {Present(<<X, SP>>)}, {Present(10), Absent(0)})

\* Items whose key answer is absent or whitespace.
NoKeyAnswers ==
  Dicts({Present("q1")}, {Absent(<<>>), Present(<<SP>>)},
        {Present(<<X>>)}, {Present(10), Absent(0)})

\* Items whose student answer is absent or whitespace, and the empty dict.
NoStudentAnswers ==
  Dicts({Present("q2")}, {Present(<<X>>)},
        {Absent(<<>>), Present(<<SP, SP>>)}, {Present(10)})
  \cup Dicts({Absent("")}, {Absent(<<>>)}, {Absent(<<>>)}, {Absent(0)})

RichAnswers ==
  FullAnswers \cup NoKeyAnswers \cup NoStudentAnswers \cup {NotADict}

PlainAnswers ==
  Dicts({Present("q1")}, {Present(<<X>>)}, {Present(<<X>>)}, {Present(10)})

SeqsUpTo(S, n) == UNION {[1..k -> S] : k \in 0..n}

\* A request: its method and what get_json(silent=True) gives: None for a
\* body that is not JSON ("none"), an empty value ("empty"), a dict without
\* or with the answers key ("no_answers", "answers"), a number other than 0
\* ("number") or the list ["answers"] ("list").
RequestsOf(items) ==
  [method : {"OPTIONS", "GET"}, json : {"none", "answers"},
   answers : {<<>>}]
  \cup [method : {"POST"},
        json : {"none", "empty", "no_answers", "number", "list"},
        answers : {<<>>}]
  \cup [method : {"POST"}, json : {"answers"},
        answers : SeqsUpTo(items, MaxBatch)]

\* What list_blobs can give: each entry a file or a directory placeholder
\* (a name ending with '/').
Listings == SeqsUpTo({"file", "dir"}, MaxBlobs)

\* The similarities the calibration is tried on: a grid over -1 .. 1, the
\* two neighbours of every breakpoint, and the middle of the 0.40-0.55 range.
CalSims ==
  {k * 5000 : k \in -20..20}
  \cup {b + d : b \in {40000, 55000, 70000, 85000}, d \in {-1, 1}}
  \cup {47500}

CalScores == 1..MaxScore \cup {50, DefaultMaxScore}

\* The breakpoints of the curve: 0.40, 0.55, 0.70, 0.85.
Breakpoints == {40000, 55000, 70000, 85000}

\* What util.cos_sim can give (cosine similarity ranges over -1 .. 1).
SimValues == {-50000, 47500, 100000}

---------------------------------------------------------------------------
(* State                                                                   *)

VARIABLES
  model,            \* the global model: "None", "primary" or "fallback"
  _model_loaded,    \* the global flag
  nreq,             \* requests started so far
  pc,               \* each thread's position
  request,          \* the request a thread is handling
  answers,          \* request_json.get("answers", [])
  results,          \* the results list of score_exam
  total_score,
  total_max_score,
  response,         \* the response returned
  blobs,            \* the listing of load_model_from_firebase_storage
  blob_i,           \* position of its download loop
  downloaded_files,
  ret,              \* the value load_model_from_firebase_storage returns
  outcomes,         \* history: how each item of the batch was scored
  acq,              \* history: acquisitions started by the request
  enc,              \* history: encode calls made by the request
  cal               \* the calibration inputs and results

vars ==
  <<model, _model_loaded, nreq, pc, request, answers, results, total_score,
    total_max_score, response, blobs, blob_i, downloaded_files, ret,
    outcomes, acq, enc, cal>>

handle == <<model, _model_loaded>>
locals == <<blobs, blob_i, downloaded_files, ret>>
batch == <<answers, results, total_score, total_max_score, outcomes>>

NoRequest == [method |-> "", json |-> "none"]
NoCal == [pc |-> "off", s1 |-> 0, s2 |-> 0, m |-> 1, r1 |-> 0, r2 |-> 0]

InitService ==
  /\ model = "None"
  /\ _model_loaded = FALSE
  /\ nreq = 0
  /\ pc = [t \in Threads |-> "idle"]
  /\ request = [t \in Threads |-> NoRequest]
  /\ answers = [t \in Threads |-> <<>>]
  /\ results = [t \in Threads |-> <<>>]
  /\ total_score = [t \in Threads |-> 0]
  /\ total_max_score = [t \in Threads |-> 0]
  /\ response = [t \in Threads |-> NoResponse]
  /\ blobs = [t \in Threads |-> <<>>]
  /\ blob_i = [t \in Threads |-> 0]
  /\ downloaded_files = [t \in Threads |-> <<>>]
  /\ ret = [t \in Threads |-> "None"]
  /\ outcomes = [t \in Threads |-> <<>>]
  /\ acq = [t \in Threads |-> 0]
  /\ enc = [t \in Threads |-> 0]

Init == InitService /\ cal = NoCal

---------------------------------------------------------------------------
(* score_exam                                                              *)

Goto(t, where) == pc' = [pc EXCEPT ![t] = where]

\* return create_response(...): the handler ends with this response.
Respond(t, data, status) ==
  /\ response' = [response EXCEPT ![t] = create_response(data, status)]
  /\ Goto(t, "responded")

ErrorBody(msg) == [error |-> msg, status |-> "error"]

\* The item the for loop is at, and the four values read from it.
Item(t) == answers[t][Len(results[t]) + 1]
question_id(t) == Get(Item(t).question_id, "")

\* key_answer read without .strip().
key_answer_unstripped(t) == Get(Item(t).key_answer, <<>>)

key_answer(t) == strip(Get(Item(t).key_answer, <<>>))
student_answer(t) == strip(Get(Item(t).student_answer, <<>>))

\* max_score read without its default.
max_score_no_default(t) == Item(t).max_score.v

max_score(t) == Get(Item(t).max_score, DefaultMaxScore)

How(kind, sim) == [kind |-> kind, sim |-> sim]

\* AppendResult putting the new result first.
AppendResult_front(t, similarity_score, final_score, how) ==
  /\ results' = [results EXCEPT ![t] =
       <<[question_id |-> question_id(t),
          similarity_score |-> Round4(similarity_score),
          final_score |-> final_score,
          max_score |-> max_score(t)]>> \o @]
  /\ total_score' = [total_score EXCEPT ![t] = @ + final_score]
  /\ total_max_score' = [total_max_score EXCEPT ![t] = @ + max_score(t)]
  /\ outcomes' = [outcomes EXCEPT ![t] = Append(@, how)]
  /\ Goto(t, "loop")

\* AppendResult assigning total_score instead of adding to it.
AppendResult_assign(t, similarity_score, final_score, how) ==
  /\ results' = [results EXCEPT ![t] =
       Append(@, [question_id |-> question_id(t),
                  similarity_score |-> Round4(similarity_score),
                  final_score |-> final_score,
                  max_score |-> max_score(t)])]
  /\ total_score' = [total_score EXCEPT ![t] = final_score]
  /\ total_max_score' = [total_max_score EXCEPT ![t] = @ + max_score(t)]
  /\ outcomes' = [outcomes EXCEPT ![t] = Append(@, how)]
  /\ Goto(t, "loop")

\* results.append({...}); total_score += final_score;
\* total_max_score += max_score; back to the head of the loop.
AppendResult(t, similarity_score, final_score, how) ==
  /\ results' = [results EXCEPT ![t] =
       Append(@, [question_id |-> question_id(t),
                  similarity_score |-> Round4(similarity_score),
                  final_score |-> final_score,
                  max_score |-> max_score(t)])]
  /\ total_score' = [total_score EXCEPT ![t] = @ + final_score]
  /\ total_max_score' = [total_max_score EXCEPT ![t] = @ + max_score(t)]
  /\ outcomes' = [outcomes EXCEPT ![t] = Append(@, how)]
  /\ Goto(t, "loop")

\* calculate_similarity returned similarity: the else branch of the loop.
Scored(t, similarity, how) ==
  AppendResult(t, similarity, calculate_final_score(similarity, max_score(t)),
               how)

\* The except clause of score_exam: the 500 response.
score_exam_except(t) ==
  /\ Respond(t, ErrorBody("exception"), 500)
  /\ UNCHANGED batch

\* calculate_similarity without its except clause: the exception reaches
\* score_exam.
similarity_except_none(t, kind) == score_exam_except(t)

\* The except clause of calculate_similarity: return 0.0.
similarity_except(t, kind) ==
  /\ Scored(t, 0, How(kind, 0))
  /\ UNCHANGED <<answers, response>>

\* The handler up to the for loop: the method checks and the parse.
score_exam_begin(t, r) ==
  /\ pc[t] = "idle"
  /\ nreq < MaxRequests
  /\ nreq' = nreq + 1
  /\ request' = [request EXCEPT ![t] = [method |-> r.method, json |-> r.json]]
  /\ IF r.method = "OPTIONS"
       THEN Respond(t, EmptyDict, 204) /\ UNCHANGED answers
     ELSE IF r.method # "POST"
       THEN Respond(t, ErrorBody("Method not allowed"), 405)
            /\ UNCHANGED answers
     ELSE IF r.json \in {"none", "empty"}
       \* not request_json
       THEN Respond(t, ErrorBody("answers array is required"), 400)
            /\ UNCHANGED answers
     ELSE IF r.json = "number"
       \* "answers" not in request_json raises TypeError
       THEN score_exam_except(t)
     ELSE IF r.json = "no_answers"
       THEN Respond(t, ErrorBody("answers array is required"), 400)
            /\ UNCHANGED answers
     ELSE IF r.json = "list"
       \* request_json.get raises AttributeError
       THEN score_exam_except(t)
     ELSE /\ answers' = [answers EXCEPT ![t] = r.answers]
          /\ Goto(t, "loop")
          /\ UNCHANGED response
  /\ UNCHANGED <<handle, locals, results, total_score, total_max_score,
                 outcomes, acq, enc, cal>>

\* One turn of the for loop, up to the first read of the shared handle; past
\* the last item, the success response.
score_exam_loop(t) ==
  /\ pc[t] = "loop"
  /\ IF Len(results[t]) = Len(answers[t])
       THEN /\ Respond(t, [results |-> results[t],
                           total_score |-> total_score[t],
                           total_max_score |-> total_max_score[t],
                           status |-> "success"], 200)
            /\ UNCHANGED batch
     ELSE IF ~Item(t).dict
       THEN score_exam_except(t)
     ELSE IF student_answer(t) = <<>>
       THEN /\ AppendResult(t, 0, 0, How("short", 0))
            /\ UNCHANGED <<answers, response>>
     ELSE IF key_answer(t) = <<>>
       THEN /\ Scored(t, 0, How("empty", 0))
            /\ UNCHANGED <<answers, response>>
     ELSE /\ Goto(t, IF model = "None" THEN "load" ELSE "encode")
          /\ UNCHANGED <<batch, response>>
  /\ UNCHANGED <<handle, nreq, request, locals, acq, enc, cal>>

---------------------------------------------------------------------------
(* load_model_from_firebase_storage                                        *)

\* if _model_loaded and model is not None: return model
load_enter(t) ==
  /\ pc[t] = "load"
  /\ IF _model_loaded /\ model # "None"
       THEN /\ ret' = [ret EXCEPT ![t] = model]
            /\ Goto(t, "assign")
            /\ UNCHANGED acq
       ELSE /\ acq' = [acq EXCEPT ![t] = @ + 1]
            /\ Goto(t, "list")
            /\ UNCHANGED ret
  /\ UNCHANGED <<handle, nreq, request, batch, response, blobs, blob_i,
                 downloaded_files, enc, cal>>

\* if not blobs or all(blob.name.endswith('/') for blob in blobs)
NotFound(listing) ==
  listing = <<>> \/ \A k \in 1..Len(listing) : listing[k] = "dir"

\* The store is reached and listed, or an exception is raised on the way.
load_list(t) ==
  /\ pc[t] = "list"
  /\ \E reachable \in BOOLEAN, listing \in Listings :
       IF reachable /\ ~NotFound(listing)
         THEN /\ blobs' = [blobs EXCEPT ![t] = listing]
              /\ blob_i' = [blob_i EXCEPT ![t] = 1]
              /\ downloaded_files' = [downloaded_files EXCEPT ![t] = <<>>]
              /\ Goto(t, "download")
         ELSE /\ blobs' = [blobs EXCEPT ![t] =
                             IF reachable THEN listing ELSE <<>>]
              /\ blob_i' = [blob_i EXCEPT ![t] = 0]
              /\ downloaded_files' = [downloaded_files EXCEPT ![t] = <<>>]
              /\ Goto(t, "fallback")
  /\ UNCHANGED <<handle, nreq, request, batch, response, ret, acq, enc, cal>>

\* One turn of the download loop: a directory entry is skipped, a file is
\* transferred or the transfer raises.
load_download(t) ==
  /\ pc[t] = "download"
  /\ IF blob_i[t] > Len(blobs[t])
       THEN /\ Goto(t, "construct")
            /\ UNCHANGED <<blob_i, downloaded_files>>
     ELSE IF blobs[t][blob_i[t]] = "dir"
       THEN /\ blob_i' = [blob_i EXCEPT ![t] = @ + 1]
            /\ UNCHANGED <<pc, downloaded_files>>
     ELSE \E ok \in BOOLEAN :
            IF ok
              THEN /\ blob_i' = [blob_i EXCEPT ![t] = @ + 1]
                   /\ downloaded_files' =
                        [downloaded_files EXCEPT ![t] = Append(@, blob_i[t])]
                   /\ UNCHANGED pc
              ELSE /\ Goto(t, "fallback")
                   /\ UNCHANGED <<blob_i, downloaded_files>>
  /\ UNCHANGED <<handle, nreq, request, batch, response, blobs, ret, acq,
                 enc, cal>>

\* blobs and downloaded_files are not read past this point.
Forget(t) ==
  /\ blobs' = [blobs EXCEPT ![t] = <<>>]
  /\ blob_i' = [blob_i EXCEPT ![t] = 0]
  /\ downloaded_files' = [downloaded_files EXCEPT ![t] = <<>>]

\* model = SentenceTransformer(LOCAL_MODEL_PATH), or it raises.
load_construct(t) ==
  /\ pc[t] = "construct"
  /\ \E ok \in BOOLEAN :
       IF ok THEN model' = "primary" /\ Goto(t, "set_loaded")
             ELSE Goto(t, "fallback") /\ UNCHANGED model
  /\ Forget(t)
  /\ UNCHANGED <<_model_loaded, nreq, request, batch, response, ret, acq,
                 enc, cal>>

\* _model_loaded = True (after either construction)
load_set_loaded(t) ==
  /\ pc[t] \in {"set_loaded", "fb_set_loaded"}
  /\ _model_loaded' = TRUE
  /\ Goto(t, IF pc[t] = "set_loaded" THEN "return" ELSE "fb_return")
  /\ UNCHANGED <<model, nreq, request, batch, response, locals, acq, enc,
                 cal>>

\* return model: the global is read again
load_return(t) ==
  /\ pc[t] \in {"return", "fb_return"}
  /\ ret' = [ret EXCEPT ![t] = model]
  /\ Goto(t, "assign")
  /\ UNCHANGED <<handle, nreq, request, batch, response, blobs, blob_i,
                 downloaded_files, acq, enc, cal>>

\* The except clause: model = SentenceTransformer("sentence-transformers/
\* all-MiniLM-L6-v2"), or it raises and the error is raised again, into
\* calculate_similarity.
load_fallback(t) ==
  /\ pc[t] = "fallback"
  /\ \E ok \in BOOLEAN :
       IF ok THEN /\ model' = "fallback"
                  /\ Goto(t, "fb_set_loaded")
                  /\ UNCHANGED <<batch, response>>
             ELSE /\ similarity_except(t, "load_error")
                  /\ UNCHANGED model
  /\ Forget(t)
  /\ UNCHANGED <<_model_loaded, nreq, request, ret, acq, enc, cal>>

---------------------------------------------------------------------------
(* calculate_similarity, past the load decision                            *)

\* model = load_model_from_firebase_storage()
similarity_assign(t) ==
  /\ pc[t] = "assign"
  /\ model' = ret[t]
  /\ ret' = [ret EXCEPT ![t] = "None"]
  /\ Goto(t, "encode")
  /\ UNCHANGED <<_model_loaded, nreq, request, batch, response, blobs,
                 blob_i, downloaded_files, acq, enc, cal>>

\* model.encode and util.cos_sim: a similarity, or an exception.
similarity_encode(t) ==
  /\ pc[t] = "encode"
  /\ enc' = [enc EXCEPT ![t] = @ + 1]
  /\ \E ok \in BOOLEAN, similarity \in SimValues :
       IF ok THEN /\ Scored(t, similarity, How("ok", similarity))
                  /\ UNCHANGED <<answers, response>>
             ELSE similarity_except(t, "encode_error")
  /\ UNCHANGED <<handle, nreq, request, locals, acq, cal>>

\* The response is sent and the thread is free for the next request.
Finish(t) ==
  /\ pc[t] = "responded"
  /\ Goto(t, "idle")
  /\ request' = [request EXCEPT ![t] = NoRequest]
  /\ answers' = [answers EXCEPT ![t] = <<>>]
  /\ results' = [results EXCEPT ![t] = <<>>]
  /\ total_score' = [total_score EXCEPT ![t] = 0]
  /\ total_max_score' = [total_max_score EXCEPT ![t] = 0]
  /\ response' = [response EXCEPT ![t] = NoResponse]
  /\ blobs' = [blobs EXCEPT ![t] = <<>>]
  /\ blob_i' = [blob_i EXCEPT ![t] = 0]
  /\ downloaded_files' = [downloaded_files EXCEPT ![t] = <<>>]
  /\ ret' = [ret EXCEPT ![t] = "None"]
  /\ outcomes' = [outcomes EXCEPT ![t] = <<>>]
  /\ acq' = [acq EXCEPT ![t] = 0]
  /\ enc' = [enc EXCEPT ![t] = 0]
  /\ UNCHANGED <<handle, nreq, cal>>

Serve(t) ==
  \/ score_exam_loop(t)
  \/ load_enter(t)
  \/ load_list(t)
  \/ load_download(t)
  \/ load_construct(t)
  \/ load_set_loaded(t)
  \/ load_return(t)
  \/ load_fallback(t)
  \/ similarity_assign(t)
  \/ similarity_encode(t)
  \/ Finish(t)

\* A free thread takes the next request.
Accept(t, items) ==
  /\ pc[t] = "idle"
  /\ nreq < MaxRequests
  /\ \E r \in RequestsOf(items) : score_exam_begin(t, r)

\* Requests of one process, overlapping in any way.
Next ==
  \E t \in Threads :
    \/ Accept(t, PlainAnswers)
    \/ Serve(t)

Spec == Init /\ [][Next]_vars

\* Requests served one at a time, over the whole range of inputs.
NextBatch ==
  \/ Accept(1, RichAnswers)
  \/ Serve(1)

SpecBatch == Init /\ [][NextBatch]_vars

---------------------------------------------------------------------------
(* calculate_final_score on its own, over two similarities and a max_score *)

InitCalib ==
  /\ InitService
  /\ cal \in [pc : {"input"}, s1 : CalSims, s2 : CalSims, m : CalScores,
              r1 : {0}, r2 : {0}]
            \cup {[pc |-> "input", s1 |-> b, s2 |-> b, m |-> LargeMaxScore,
                   r1 |-> 0, r2 |-> 0] : b \in Breakpoints}

\* The branch used just below breakpoint b and the one used from b on.
below(b, similarity) ==
  IF b = 85000 THEN good(similarity)
  ELSE IF b = 70000 THEN partial(similarity)
  ELSE IF b = 55000 THEN weak(similarity)
  ELSE poor(similarity)

from(b, similarity) ==
  IF b = 85000 THEN perfect(similarity)
  ELSE IF b = 70000 THEN good(similarity)
  ELSE IF b = 55000 THEN partial(similarity)
  ELSE weak(similarity)

\* Both branches that meet at a breakpoint, evaluated at the breakpoint.
CalibrateBranches ==
  /\ cal.pc = "input"
  /\ cal.s1 = cal.s2
  /\ cal.s1 \in Breakpoints
  /\ cal' = [cal EXCEPT !.pc = "branches",
                        !.r1 = scale(below(cal.s1, cal.s1), cal.m),
                        !.r2 = scale(from(cal.s1, cal.s1), cal.m)]
  /\ UNCHANGED <<handle, nreq, pc, request, batch, response, locals, acq,
                 enc>>

Calibrate ==
  /\ cal.pc = "input"
  /\ cal.m \in CalScores
  /\ cal' = [cal EXCEPT !.pc = "done",
                        !.r1 = calculate_final_score(cal.s1, cal.m),
                        !.r2 = calculate_final_score(cal.s2, cal.m)]
  /\ UNCHANGED <<handle, nreq, pc, request, batch, response, locals, acq,
                 enc>>

SpecCalib == InitCalib /\ [][Calibrate \/ CalibrateBranches]_vars

---------------------------------------------------------------------------
(* Properties                                                              *)

Items(t) == 1..Len(results[t])

\* The items of the batch scored so far whose similarity computation raised.
Raised(t) ==
  {i \in Items(t) : outcomes[t][i].kind \in {"encode_error", "load_error"}}

AllDicts(t) == \A i \in 1..Len(answers[t]) : answers[t][i].dict

Success(t) == pc[t] = "responded" /\ response[t].status = 200

\* A text with nothing but whitespace in it.
AllSpace(s) == \A k \in 1..Len(s) : s[k] = SP

\* An item whose key and student answers both hold something once trimmed.
Full(a) ==
  /\ a.dict
  /\ ~AllSpace(Get(a.key_answer, <<>>))
  /\ ~AllSpace(Get(a.student_answer, <<>>))

RECURSIVE SumFinal(_)
SumFinal(rs) ==
  IF rs = <<>> THEN 0 ELSE Head(rs).final_score + SumFinal(Tail(rs))

RECURSIVE SumMax(_)
SumMax(as) ==
  IF as = <<>> THEN 0
  ELSE Get(Head(as).max_score, DefaultMaxScore) + SumMax(Tail(as))

\* C1: an item whose similarity computation raised is reported with
\* similarity_score 0.0 and final_score 0, every item whose computation
\* returned has the scores of its own similarity, and no such exception ends
\* the batch: a POST whose answers are all dicts is answered with the 200
\* success response holding one result per item.
C1_ErrorScoresZero ==
  \A t \in Threads :
    /\ \A i \in Items(t) :
         LET r == results[t][i]
             h == outcomes[t][i]
         IN  /\ i \in Raised(t) =>
                  r.similarity_score = 0 /\ r.final_score = 0
             /\ h.kind = "ok" =>
                  /\ r.similarity_score = Round4(h.sim)
                  /\ r.final_score = calculate_final_score(h.sim, r.max_score)
    /\ (pc[t] = "responded" /\ request[t].method = "POST"
        /\ request[t].json = "answers" /\ AllDicts(t)) =>
         /\ response[t].status = 200
         /\ response[t].body.status = "success"
         /\ Len(response[t].body.results) = Len(answers[t])

C1_Witness ==
  \E t \in Threads :
    /\ Success(t)
    /\ Len(results[t]) = 2
    /\ outcomes[t][1].kind = "encode_error"
    /\ outcomes[t][2].kind = "ok"
    /\ results[t][1].final_score = 0
    /\ results[t][2].final_score > 0

\* C2: the results follow the input order: result i carries the question_id
\* of request i (the empty string when the request has none), and a success
\* response holds exactly one result per request.
C2_InputOrder ==
  \A t \in Threads :
    /\ Len(results[t]) <= Len(answers[t])
    /\ \A i \in Items(t) :
         results[t][i].question_id = Get(answers[t][i].question_id, "")
    /\ Success(t) =>
         /\ response[t].body.results = results[t]
         /\ Len(results[t]) = Len(answers[t])

C2_Witness ==
  \E t \in Threads :
    /\ Success(t)
    /\ Len(response[t].body.results) = 2
    /\ response[t].body.results[1].question_id = "q2"
    /\ response[t].body.results[2].question_id = ""
    /\ ~answers[t][2].question_id.present

\* C3: after k items the running totals are the sums over those k items,
\* and a success response carries total_score = the sum of final_score over
\* its results and total_max_score = the sum of max_score over the requests
\* (100 for a request with none).
C3_Totals ==
  \A t \in Threads :
    /\ total_score[t] = SumFinal(results[t])
    /\ total_max_score[t] = SumMax(SubSeq(answers[t], 1, Len(results[t])))
    /\ Success(t) =>
         /\ response[t].body.total_score = SumFinal(response[t].body.results)
         /\ response[t].body.total_max_score = SumMax(answers[t])

C3_Witness ==
  \E t \in Threads :
    /\ Success(t)
    /\ Len(results[t]) = 2
    /\ results[t][1].final_score > 0
    /\ results[t][2].final_score > 0
    /\ ~answers[t][2].max_score.present
    /\ response[t].body.total_max_score = 10 + DefaultMaxScore

\* C4: every result's final_score lies in 0 .. max_score, whatever similarity
\* the provider returned (negative ones included).
C4_FinalScoreInRange ==
  \A t \in Threads :
    \A i \in Items(t) :
      /\ 0 <= results[t][i].final_score
      /\ results[t][i].final_score <= results[t][i].max_score

\* C5: an item whose key answer or student answer is empty once trimmed is
\* reported with similarity 0.0 and final_score 0, and the provider is not
\* invoked for it: encode calls and acquisitions happen only for items with
\* both texts non-empty.
C5_EmptyShortCircuit ==
  \A t \in Threads :
    LET full(k) == {i \in 1..k : Full(answers[t][i])}
    IN  /\ \A i \in Items(t) :
             ~Full(answers[t][i]) =>
               /\ results[t][i].similarity_score = 0
               /\ results[t][i].final_score = 0
               /\ outcomes[t][i].kind \in {"short", "empty"}
        /\ enc[t] <= Cardinality(full(Len(results[t])))
        /\ pc[t] \notin {"idle", "loop", "responded"} =>
             /\ Full(Item(t))
             /\ acq[t] <= Cardinality(full(Len(results[t]) + 1))
        /\ pc[t] \in {"loop", "responded"} =>
             acq[t] <= Cardinality(full(Len(results[t])))

C5_Witness ==
  \E t \in Threads :
    /\ Success(t)
    /\ Len(results[t]) = 2
    /\ answers[t][1].key_answer = Present(<<SP>>)
    /\ answers[t][1].student_answer = Present(<<X>>)
    /\ results[t][1].max_score = DefaultMaxScore
    /\ answers[t][2].student_answer = Present(<<SP, SP>>)
    /\ results[t][2].final_score = 0
    /\ enc[t] = 0
    /\ acq[t] = 0
    /\ model = "None"

\* The positions of a full acquisition: listing, download, construction.
Acquiring == {"list", "download", "construct"}

\* C6: once acquisition has succeeded the handle keeps its provider: a ready
\* handle is never given another model.
C6_HandleKept ==
  [][(_model_loaded /\ model # "None") => model' = model]_vars

\* C7: at most one request at a time is performing a full acquisition.
C7_OneAcquisition ==
  Cardinality({t \in Threads : pc[t] \in Acquiring}) <= 1

\* C8: a request in which the primary acquisition and the construction of
\* the fallback model both failed is answered with a 500-class response.
C8_FallbackFailureIs500 ==
  \A t \in Threads :
    (pc[t] = "responded"
     /\ \E i \in Items(t) : outcomes[t][i].kind = "load_error") =>
      response[t].status >= 500

\* C9: when the primary acquisition has failed and the fallback model is
\* constructed, load_model_from_firebase_storage returns the fallback
\* provider with the handle ready on it, and nothing was transferred when
\* the listing was empty or held only directory entries.
C9_FallbackReturned ==
  [][\A t \in Threads :
       /\ (pc[t] = "fb_return" /\ pc'[t] = "assign") =>
            /\ ret'[t] = "fallback"
            /\ model' = "fallback"
            /\ _model_loaded'
       /\ (pc'[t] = "fallback" /\ NotFound(blobs'[t])) =>
            downloaded_files'[t] = <<>>]_vars

\* C10: for a fixed max_score, a smaller similarity never gets a larger
\* final score.
C10_Monotone ==
  (cal.pc = "done" /\ cal.s1 < cal.s2) => cal.r1 <= cal.r2

C10_Witness ==
  /\ cal.pc = "done"
  /\ cal.s1 = 84999
  /\ cal.s2 = 85000
  /\ cal.m = DefaultMaxScore
  /\ cal.r1 = 90
  /\ cal.r2 = 90

\* C11: at each breakpoint the score of the branch below it and the score of
\* the branch from it on, both taken at the breakpoint, differ by at most 1.
C11_Continuous ==
  cal.pc = "branches" =>
    (cal.r1 - cal.r2 <= 1 /\ cal.r2 - cal.r1 <= 1)

\* A dict that lacks at least one of the four fields.
Lacking(a) ==
  /\ a.dict
  /\ \/ ~a.question_id.present
     \/ ~a.key_answer.present
     \/ ~a.student_answer.present
     \/ ~a.max_score.present

\* C12: an item lacking question_id, key_answer, student_answer or max_score
\* is scored with the default in its place ("" for the texts, 100 for
\* max_score) and reported with that max_score; the batch goes on, and a
\* batch of dicts with such an item in it is answered with the success
\* response holding one result per item.
C12_DefaultsForMissing ==
  \A t \in Threads :
    /\ \A i \in Items(t) :
         LET a == answers[t][i]
             r == results[t][i]
         IN  /\ ~a.question_id.present => r.question_id = ""
             /\ ~a.max_score.present => r.max_score = 100
             /\ (~a.key_answer.present \/ ~a.student_answer.present) =>
                  /\ r.similarity_score = 0
                  /\ r.final_score = 0
                  /\ outcomes[t][i].kind \in {"short", "empty"}
    /\ (pc[t] = "responded" /\ request[t].json = "answers" /\ AllDicts(t)
        /\ \E i \in 1..Len(answers[t]) : Lacking(answers[t][i])) =>
         /\ response[t].status = 200
         /\ response[t].body.status = "success"
         /\ Len(response[t].body.results) = Len(answers[t])
         /\ \A i \in 1..Len(answers[t]) :
              response[t].body.results[i].max_score =
                IF answers[t][i].max_score.present
                  THEN answers[t][i].max_score.v ELSE 100

\* A batch whose first item has none of the four fields and whose second
\* lacks question_id and max_score only, and is scored.
C12_Witness ==
  \E t \in Threads :
    /\ Success(t)
    /\ Len(response[t].body.results) = 2
    /\ answers[t][1] = [dict |-> TRUE, question_id |-> Absent(""),
                        key_answer |-> Absent(<<>>),
                        student_answer |-> Absent(<<>>),
                        max_score |-> Absent(0)]
    /\ response[t].body.results[1] =
         [question_id |-> "", similarity_score |-> 0, final_score |-> 0,
          max_score |-> 100]
    /\ ~answers[t][2].max_score.present
    /\ ~answers[t][2].question_id.present
    /\ response[t].body.results[2].max_score = 100
    /\ response[t].body.results[2].final_score = 100
    /\ response[t].body.total_max_score = 200

\* C13: every result's similarity_score lies in 0 .. 1 (0 .. 100000 in units
\* of 0.00001), whatever similarity the provider returned.
C13_SimilarityInUnit ==
  \A t \in Threads :
    \A i \in Items(t) :
      /\ 0 <= results[t][i].similarity_score
      /\ results[t][i].similarity_score <= 100000

\* The handler of thread t is running: it has neither returned nor raised.
InHandler(t) == pc[t] \notin {"idle", "responded"}

\* A running handler has sent nothing yet and has a next step to take (no
\* exception has left it), and a handler that ended did so with a response
\* carrying the CORS headers.
OneResponse(t) ==
  /\ InHandler(t) => (response[t] = NoResponse /\ ENABLED Serve(t))
  /\ pc[t] = "idle" => response[t] = NoResponse
  /\ pc[t] = "responded" =>
       /\ response[t].status \in {200, 204, 400, 405, 500}
       /\ response[t].headers = CorsHeaders

HasStatus(body) ==
  /\ "status" \in DOMAIN body
  /\ body.status \in {"success", "error"}

\* C14 as stated: every request ends with exactly one response, with the
\* CORS headers and a body carrying a status field, "success" or "error".
C14_StatusAlways ==
  \A t \in Threads :
    /\ OneResponse(t)
    /\ pc[t] = "responded" => HasStatus(response[t].body)

\* C14, amended: every request ends with exactly one response, with the CORS
\* headers; its body carries a status field, "success" with status 200 and
\* "error" with 400, 405 and 500, for every method but OPTIONS, whose 204
\* response has the empty object as its body.
C14_StatusUnlessOptions ==
  \A t \in Threads :
    /\ OneResponse(t)
    /\ pc[t] = "responded" =>
         IF request[t].method = "OPTIONS"
           THEN /\ response[t].status = 204
                /\ DOMAIN response[t].body = {}
           ELSE /\ HasStatus(response[t].body)
                /\ response[t].body.status = "success"
                     <=> response[t].status = 200

\* A 500 response, after a failed acquisition earlier in the same batch.
C14_Witness ==
  \E t \in Threads :
    /\ pc[t] = "responded"
    /\ response[t].status = 500
    /\ response[t].body.status = "error"
    /\ response[t].headers = CorsHeaders
    /\ Len(results[t]) = 1
    /\ outcomes[t][1].kind = "load_error"

\* The responses of the three rejections.
Rejected(t, status) ==
  /\ response[t].status = status
  /\ DOMAIN response[t].body = {"error", "status"}
  /\ response[t].body.status = "error"
  /\ results[t] = <<>>
  /\ enc[t] = 0
  /\ acq[t] = 0

\* C15: OPTIONS is answered with 204 and an empty body; any other method
\* but POST with 405 and {error, status: "error"}; a POST whose body is not
\* JSON or has no answers key with 400 and {error, status: "error"}; none
\* of them scores anything, only a POST with an answers key is ever in the
\* scoring loop, and a failure in the loop is answered with 500.
C15_Classification ==
  \A t \in Threads :
    /\ InHandler(t) =>
         (request[t].method = "POST" /\ request[t].json = "answers")
    /\ pc[t] = "responded" =>
         IF request[t].method = "OPTIONS"
           THEN /\ response[t].status = 204
                /\ DOMAIN response[t].body = {}
                /\ results[t] = <<>>
         ELSE IF request[t].method # "POST"
           THEN Rejected(t, 405)
         ELSE IF request[t].json # "answers"
           THEN Rejected(t, 400)
         ELSE /\ response[t].status \in {200, 500}
              /\ response[t].status = 500 <=> ~AllDicts(t)

\* The percentage formula of each similarity range.
Table(similarity) ==
  CASE similarity >= 85000 -> 9000000 + (similarity - 85000) * 67
    [] 70000 <= similarity /\ similarity < 85000 ->
         7000000 + (similarity - 70000) * 133
    [] 55000 <= similarity /\ similarity < 70000 ->
         5000000 + (similarity - 55000) * 133
    [] 40000 <= similarity /\ similarity < 55000 ->
         3000000 + (similarity - 40000) * 133
    [] similarity < 40000 -> similarity * 75

\* The result expected of calculate_final_score(s, m).
Expected(s, m, result) ==
  /\ result = RoundHalfEven(Min(Table(s), 10000000) * m, 10000000)
  /\ (s = 85000 /\ m = 20) => result = 18
  /\ (s = 100000 /\ m = 20) => result = 20
  /\ (s = 70000 /\ m = 10) => result = 7
  /\ (s = 0 /\ m = 50) => result = 0
  /\ (s = 47500 /\ m = 100) => result = 40

C17_FailureLeavesUninitialized ==
  [][/\ _model_loaded' => model' # "None"
     /\ \A t \in Threads :
          /\ (pc[t] = "fallback" /\ pc'[t] = "loop") =>
               (model' = "None" /\ ~_model_loaded')
          /\ (pc[t] = "load" /\ pc'[t] # "load" /\ model = "None") =>
               (pc'[t] = "list" /\ acq'[t] = acq[t] + 1)]_vars

\* The request of thread t has no item with both texts non-empty: it was
\* rejected before the loop, or its answers list is empty, or every item
\* of it has an empty key or student answer.
Quiet(t) == \A i \in 1..Len(answers[t]) : ~Full(answers[t][i])

\* C18: the steps of a request answered with 204, 405 or 400, and of a batch
\* whose items all have an empty key or student answer (or that has no
\* items), leave model and _model_loaded as they were and start no
\* acquisition; an acquisition is only started at an item whose key and
\* student answers are both non-empty.
C18_QuietKeepsHandle ==
  [][\A t \in Threads :
       /\ (<<pc[t], blob_i[t], results[t]>>' # <<pc[t], blob_i[t], results[t]>>
           /\ Quiet(t)') =>
            /\ model' = model
            /\ _model_loaded' = _model_loaded
            /\ acq'[t] = 0
            /\ enc'[t] = 0
       /\ acq'[t] > acq[t] =>
            /\ pc[t] = "load"
            /\ Full(Item(t))]_vars

\* With the handle ready on the primary model, a batch of two items, one
\* with a blank key and one with a blank student answer, has been answered.
C18_Witness ==
  \E t \in Threads :
    /\ Success(t)
    /\ Len(results[t]) = 2
    /\ answers[t][1].key_answer = Present(<<SP>>)
    /\ answers[t][1].student_answer = Present(<<X>>)
    /\ answers[t][2].student_answer = Present(<<SP, SP>>)
    /\ acq[t] = 0
    /\ enc[t] = 0
    /\ nreq = 2
    /\ model = "primary"
    /\ _model_loaded

====
